---- MODULE Spec2Model ----
(***************************************************************************)
(* Model of the class Graphe (graphe.cpp): a directed weighted graph kept  *)
(* as a vector of adjacency lists (m_listesAdj) with an incrementally      *)
(* maintained arc counter (m_nbArcs), its mutators resize / ajouterArc /   *)
(* enleverArc, the accessor getPoids and the query plusCourtChemin         *)
(* (depth-first topological ordering followed by one relaxation pass).     *)
(*                                                                         *)
(* Integer widths.  The build has a 32-bit unsigned int and a 64-bit       *)
(* size_t.  The model keeps the two widths and their ratio but scales      *)
(* them: unsigned int has UIntBits bits and size_t twice as many, so that  *)
(* the narrowing conversion of the return statement of plusCourtChemin     *)
(* and the forbidden weight numeric_limits<unsigned int>::max() are        *)
(* reachable with small numbers.                                           *)
(*                                                                         *)
(* Calls are synchronous: a call is one step, which records the call, its  *)
(* outcome and the members as they were before it; the caller then takes   *)
(* the outcome (Reprendre) before it calls again.  An access outside an    *)
(* array (plusCourtChemin checks no index) is undefined behaviour and is   *)
(* modelled as a choice among a crash and returns of arbitrary results.    *)
(* The two lines plusCourtChemin writes to std::cout are not modelled.     *)
(***************************************************************************)
EXTENDS Integers, Sequences, FiniteSets, TLC

\* ------------------------------------------------------------------ bounds
MaxSommets == 3
MaxArcs == 3
UIntBits == 3

\* --------------------------------------------------------- program constants
\* numeric_limits<unsigned int>::max()
UINT_MAX == 2^UIntBits - 1
\* numeric_limits<size_t>::max(): INF of plusCourtChemin, "no predecessor"
SIZE_MAX == 2^(2 * UIntBits) - 1
\* the iteration cap of the two while loops of plusCourtChemin
LimiteCunter == 150000

\* vertex arguments tried by the calls: the valid ones and one past the largest
Sommets == 0..MaxSommets
\* weights tried by ajouterArc: zero, one, half the range and the forbidden one
PoidsEssayes == {0, 1, 2^(UIntBits - 1), UINT_MAX}
\* contents of the caller's vector handed to plusCourtChemin
CheminsEntree == {<<>>, <<0>>}

VARIABLES m_listesAdj, m_nbArcs, appel, retour, avant, serie

vars == <<m_listesAdj, m_nbArcs, appel, retour, avant, serie>>

\* ------------------------------------------------------------------ helpers
\* struct Arc {destination, poids}
Arc(j, poids) == [destination |-> j, poids |-> poids]

\* m_listesAdj[i], vertices being numbered from 0
Liste(adj, i) == adj[i + 1]

RECURSIVE SommeTailles(_, _, _)
\* sum of m_listesAdj[i].size() for i in de..(a - 1)
SommeTailles(adj, de, a) ==
  IF de >= a THEN 0 ELSE Len(Liste(adj, de)) + SommeTailles(adj, de + 1, a)

\* the throw sites: logic_error with the kind its message names
Erreur(sorte) == [issue |-> "logic_error", sorte |-> sorte]
Ok == [issue |-> "ok"]

getNbSommets(adj) == Len(adj)

getNbArcs(nb) == nb

\* ------------------------------------------------------------- constructor
\* Graphe::Graphe(p_nbSommets)
Graphe(p_nbSommets) ==
  [listesAdj |-> [k \in 1..p_nbSommets |-> <<>>], nbArcs |-> 0]

\* ------------------------------------------------------------------ resize
\* resize without the decrement loop
resize_sansDecrement(adj, nb, p_nouvelleTaille) ==
  [listesAdj |-> [k \in 1..p_nouvelleTaille |->
                    IF k <= Len(adj) THEN adj[k] ELSE <<>>],
   nbArcs |-> nb]

\* resize that also erases the arcs of the surviving lists that enter a
\* removed vertex
resize_cascade(adj, nb, p_nouvelleTaille) ==
  LET garde(l) == SelectSeq(l, LAMBDA a : a.destination < p_nouvelleTaille)
      nv == [k \in 1..p_nouvelleTaille |->
               IF k <= Len(adj) THEN garde(adj[k]) ELSE <<>>]
  IN [listesAdj |-> nv, nbArcs |-> SommeTailles(nv, 0, Len(nv))]

\* Graphe::resize: m_nbArcs loses the sizes of the lists that are dropped
\* (size_t arithmetic), then the vector is resized
resize(adj, nb, p_nouvelleTaille) ==
  [listesAdj |-> [k \in 1..p_nouvelleTaille |->
                    IF k <= Len(adj) THEN adj[k] ELSE <<>>],
   nbArcs |-> IF p_nouvelleTaille < Len(adj)
              THEN (nb - SommeTailles(adj, p_nouvelleTaille, Len(adj)))
                     % (SIZE_MAX + 1)
              ELSE nb]

\* ------------------------------------------------------------- ajouterArc
\* Graphe::ajouterArc
ajouterArc(adj, nb, i, j, poids) ==
  IF i >= Len(adj) THEN
    [listesAdj |-> adj, nbArcs |-> nb, retour |-> Erreur("SommetInexistant")]
  ELSE IF j >= Len(adj) THEN
    [listesAdj |-> adj, nbArcs |-> nb, retour |-> Erreur("SommetInexistant")]
  ELSE IF poids = UINT_MAX THEN
    [listesAdj |-> adj, nbArcs |-> nb, retour |-> Erreur("PoidsInterdit")]
  ELSE
    [listesAdj |-> [adj EXCEPT ![i + 1] = Append(@, Arc(j, poids))],
     nbArcs |-> (nb + 1) % (SIZE_MAX + 1), retour |-> Ok]

\* ------------------------------------------------------------- enleverArc
RECURSIVE ChercherDepuisLaFin(_, _, _)
\* the loop of enleverArc: itr walks from end() down to begin(); the position
\* (1-based) of the first arc met whose destination is j, 0 when there is none
ChercherDepuisLaFin(liste, j, itr) ==
  IF itr = 0 THEN 0
  ELSE IF liste[itr].destination = j THEN itr
  ELSE ChercherDepuisLaFin(liste, j, itr - 1)

RECURSIVE ChercherDepuisLeDebut(_, _, _)
\* the same search walking from begin() to end()
ChercherDepuisLeDebut(liste, j, itr) ==
  IF itr > Len(liste) THEN 0
  ELSE IF liste[itr].destination = j THEN itr
  ELSE ChercherDepuisLeDebut(liste, j, itr + 1)

\* list::erase(itr)
Effacer(liste, itr) ==
  SubSeq(liste, 1, itr - 1) \o SubSeq(liste, itr + 1, Len(liste))

\* enleverArc erasing the earliest matching arc
enleverArc_premier(adj, nb, i, j) ==
  IF i >= Len(adj) \/ j >= Len(adj) THEN
    [listesAdj |-> adj, nbArcs |-> nb, retour |-> Erreur("SommetInexistant")]
  ELSE IF Liste(adj, i) = <<>> THEN
    [listesAdj |-> adj, nbArcs |-> nb, retour |-> Erreur("ListeVide")]
  ELSE LET itr == ChercherDepuisLeDebut(Liste(adj, i), j, 1) IN
    IF itr = 0 THEN
      [listesAdj |-> adj, nbArcs |-> nb, retour |-> Erreur("ArcInexistant")]
    ELSE
      [listesAdj |-> [adj EXCEPT ![i + 1] = Effacer(@, itr)],
       nbArcs |-> (nb - 1) % (SIZE_MAX + 1), retour |-> Ok]

\* enleverArc without the test of the empty list
enleverArc_sansTestVide(adj, nb, i, j) ==
  IF i >= Len(adj) \/ j >= Len(adj) THEN
    [listesAdj |-> adj, nbArcs |-> nb, retour |-> Erreur("SommetInexistant")]
  ELSE LET itr == ChercherDepuisLaFin(Liste(adj, i), j, Len(Liste(adj, i))) IN
    IF itr = 0 THEN
      [listesAdj |-> adj, nbArcs |-> nb, retour |-> Erreur("ArcInexistant")]
    ELSE
      [listesAdj |-> [adj EXCEPT ![i + 1] = Effacer(@, itr)],
       nbArcs |-> (nb - 1) % (SIZE_MAX + 1), retour |-> Ok]

\* Graphe::enleverArc
enleverArc(adj, nb, i, j) ==
  IF i >= Len(adj) THEN
    [listesAdj |-> adj, nbArcs |-> nb, retour |-> Erreur("SommetInexistant")]
  ELSE IF j >= Len(adj) THEN
    [listesAdj |-> adj, nbArcs |-> nb, retour |-> Erreur("SommetInexistant")]
  ELSE IF Liste(adj, i) = <<>> THEN
    [listesAdj |-> adj, nbArcs |-> nb, retour |-> Erreur("ListeVide")]
  ELSE LET itr == ChercherDepuisLaFin(Liste(adj, i), j, Len(Liste(adj, i))) IN
    IF itr = 0 THEN
      [listesAdj |-> adj, nbArcs |-> nb, retour |-> Erreur("ArcInexistant")]
    ELSE
      [listesAdj |-> [adj EXCEPT ![i + 1] = Effacer(@, itr)],
       nbArcs |-> (nb - 1) % (SIZE_MAX + 1), retour |-> Ok]

\* ---------------------------------------------------------------- getPoids
\* Graphe::getPoids: the weight of the first arc to j met from begin()
getPoids(adj, i, j) ==
  IF i >= Len(adj) THEN Erreur("SommetInexistant")
  ELSE LET itr == ChercherDepuisLeDebut(Liste(adj, i), j, 1) IN
    IF itr = 0 THEN Erreur("ArcInexistant")
    ELSE [issue |-> "ok", valeur |-> Liste(adj, i)[itr].poids]

\* ---------------------------------------------------- topologicalSortUtil
\* The traversal state e is [visited, Stack]: the array visited[] and the
\* std::stack (its top is the last element of the sequence).

RECURSIVE topologicalSortUtil(_, _, _)
RECURSIVE ParcourirListe(_, _, _, _)
\* the for loop of topologicalSortUtil over m_listesAdj[v], from its k-th arc
ParcourirListe(adj, v, k, e) ==
  IF k > Len(Liste(adj, v)) THEN e
  ELSE LET node == Liste(adj, v)[k] IN
    ParcourirListe(adj, v, k + 1,
      IF ~e.visited[node.destination]
      THEN topologicalSortUtil(adj, node.destination, e)
      ELSE e)

\* Graphe::topologicalSortUtil: mark v, recur into the unvisited successors
\* in list order, then push v
topologicalSortUtil(adj, v, e) ==
  LET fini == ParcourirListe(adj, v, 1,
                [visited |-> [e.visited EXCEPT ![v] = TRUE], Stack |-> e.Stack])
  IN [visited |-> fini.visited, Stack |-> Append(fini.Stack, v)]

RECURSIVE TriTopologique(_, _, _)
\* plusCourtChemin: topologicalSortUtil(i) for every i from 0 to V-1 that is
\* not visited yet
TriTopologique(adj, i, e) ==
  IF i >= Len(adj) THEN e
  ELSE TriTopologique(adj, i + 1,
         IF e.visited[i] = FALSE THEN topologicalSortUtil(adj, i, e) ELSE e)

\* ------------------------------------------------------------- relaxation
\* The relaxation state r is [dist, predecesseur], both indexed 0..V-1.

RECURSIVE RelacherArcs(_, _, _, _)
\* the for loop over m_listesAdj[u] from its k-th arc: dist[] is a size_t array
RelacherArcs(adj, u, k, r) ==
  IF k > Len(Liste(adj, u)) THEN r
  ELSE LET i == Liste(adj, u)[k]
           somme == (r.dist[u] + i.poids) % (SIZE_MAX + 1)
       IN RelacherArcs(adj, u, k + 1,
            IF r.dist[i.destination] > somme
            THEN [dist |-> [r.dist EXCEPT ![i.destination] = somme],
                  predecesseur |-> [r.predecesseur EXCEPT ![i.destination] = u]]
            ELSE r)

RECURSIVE TraiterPile(_, _, _, _)
\* the while loop popping Stack; leve is set when cunter exceeds the cap
TraiterPile(adj, Stack, r, cunter) ==
  IF Stack = <<>> THEN [leve |-> FALSE, dist |-> r.dist,
                        predecesseur |-> r.predecesseur]
  ELSE LET u == Stack[Len(Stack)]
           r2 == IF r.dist[u] # SIZE_MAX THEN RelacherArcs(adj, u, 1, r) ELSE r
       IN IF cunter + 1 > LimiteCunter
          THEN [leve |-> TRUE, dist |-> r2.dist, predecesseur |-> r2.predecesseur]
          ELSE TraiterPile(adj, SubSeq(Stack, 1, Len(Stack) - 1), r2, cunter + 1)

RECURSIVE Remonter(_, _, _, _)
\* the while loop walking predecesseur[] from p_destination; pileDuChemin has
\* its top last
Remonter(predecesseur, numero, pileDuChemin, cunter) ==
  IF predecesseur[numero] = SIZE_MAX
  THEN [leve |-> FALSE, pileDuChemin |-> pileDuChemin]
  ELSE IF cunter + 1 > LimiteCunter
  THEN [leve |-> TRUE, pileDuChemin |-> pileDuChemin]
  ELSE Remonter(predecesseur, predecesseur[numero],
                Append(pileDuChemin, predecesseur[numero]), cunter + 1)

\* draining a stack from its top
Depiler(pile) == [k \in 1..Len(pile) |-> pile[Len(pile) + 1 - k]]

\* return dist[p_destination]: a size_t returned as unsigned int
Retourner(d) == d % (UINT_MAX + 1)

\* -------------------------------------------------------- plusCourtChemin
\* an arc whose destination is no vertex any more (left by a shrinking resize)
ArcPendant(adj) ==
  \E i \in 1..Len(adj) : \E k \in 1..Len(adj[i]) :
    adj[i][k].destination >= Len(adj)

\* plusCourtChemin indexes visited[], dist[] or predecesseur[] outside 0..V-1:
\* dist[p_origine], predecesseur[p_destination], visited[node.destination]
HorsBornes(adj, p_origine, p_destination) ==
  p_origine >= Len(adj) \/ p_destination >= Len(adj) \/ ArcPendant(adj)

\* what the call can do once it has indexed out of bounds
ComportementIndefini(p_destination, p_chemin) ==
  {[issue |-> "plantage", hors_bornes |-> TRUE]}
  \cup {[issue |-> "ok", hors_bornes |-> TRUE, valeur |-> x,
         p_chemin |-> p_chemin \o <<p_destination>>] : x \in {0, UINT_MAX}}

\* Graphe::plusCourtChemin when every index is in bounds
plusCourtChemin(adj, p_origine, p_destination, p_chemin) ==
  LET V == Len(adj)
      tri == TriTopologique(adj, 0,
               [visited |-> [i \in 0..(V - 1) |-> FALSE], Stack |-> <<>>])
      dist0 == [[i \in 0..(V - 1) |-> SIZE_MAX] EXCEPT ![p_origine] = 0]
      pred0 == [i \in 0..(V - 1) |-> SIZE_MAX]
      fin == TraiterPile(adj, tri.Stack,
               [dist |-> dist0, predecesseur |-> pred0], 0)
      remonte == Remonter(fin.predecesseur, p_destination,
                          <<p_destination>>, 0)
  IN IF fin.leve \/ remonte.leve
     THEN [issue |-> "exception", hors_bornes |-> FALSE]
     ELSE [issue |-> "ok", hors_bornes |-> FALSE,
           valeur |-> Retourner(fin.dist[p_destination]),
           p_chemin |-> p_chemin \o Depiler(remonte.pileDuChemin)]

\* ------------------------------------------------------------------ state
\* m_listesAdj and m_nbArcs are the members of Graphe.  The other variables
\* record the caller's view of the last call: appel (the call and its
\* arguments, "aucun" between two calls), retour (how it ended), avant (the
\* members as they were when it started) and serie (the pair (i, j) while
\* successful enleverArc(i, j) calls on a list holding only arcs to j follow
\* one another).
Etat == [listesAdj |-> m_listesAdj, nbArcs |-> m_nbArcs, serie |-> serie]

Aucun == [op |-> "aucun"]

\* every arc of the list goes to j
TousVers(liste, j) == \A k \in 1..Len(liste) : liste[k].destination = j

Init ==
  \E p_nbSommets \in 0..MaxSommets :
    /\ m_listesAdj = Graphe(p_nbSommets).listesAdj
    /\ m_nbArcs = Graphe(p_nbSommets).nbArcs
    /\ appel = [op |-> "Graphe", p_nbSommets |-> p_nbSommets]
    /\ retour = Ok
    /\ serie = <<>>
    /\ avant = [listesAdj |-> <<>>, nbArcs |-> 0, serie |-> <<>>]

\* the caller is between two calls
Libre == appel.op = "aucun"

\* the caller takes the outcome of the call and is ready for the next one
Reprendre ==
  /\ ~Libre
  /\ appel' = Aucun
  /\ retour' = Ok
  /\ avant' = [listesAdj |-> <<>>, nbArcs |-> 0, serie |-> <<>>]
  /\ UNCHANGED <<m_listesAdj, m_nbArcs, serie>>

Resize(p_nouvelleTaille) ==
  LET s == resize(m_listesAdj, m_nbArcs, p_nouvelleTaille) IN
  /\ Libre
  /\ m_listesAdj' = s.listesAdj
  /\ m_nbArcs' = s.nbArcs
  /\ appel' = [op |-> "resize", p_nouvelleTaille |-> p_nouvelleTaille]
  /\ retour' = Ok
  /\ serie' = <<>>
  /\ avant' = Etat

AjouterArc(i, j, poids) ==
  LET s == ajouterArc(m_listesAdj, m_nbArcs, i, j, poids) IN
  /\ Libre
  /\ s.retour.issue = "ok" =>
       SommeTailles(m_listesAdj, 0, Len(m_listesAdj)) < MaxArcs
  /\ m_listesAdj' = s.listesAdj
  /\ m_nbArcs' = s.nbArcs
  /\ appel' = [op |-> "ajouterArc", i |-> i, j |-> j, poids |-> poids]
  /\ retour' = s.retour
  /\ serie' = <<>>
  /\ avant' = Etat

EnleverArc(i, j) ==
  LET s == enleverArc(m_listesAdj, m_nbArcs, i, j) IN
  /\ Libre
  /\ m_listesAdj' = s.listesAdj
  /\ m_nbArcs' = s.nbArcs
  /\ appel' = [op |-> "enleverArc", i |-> i, j |-> j]
  /\ retour' = s.retour
  /\ serie' = IF /\ s.retour.issue = "ok"
                 /\ TousVers(Liste(m_listesAdj, i), j)
              THEN <<i, j>> ELSE <<>>
  /\ avant' = Etat

GetPoids(i, j) ==
  /\ Libre
  /\ appel' = [op |-> "getPoids", i |-> i, j |-> j]
  /\ retour' = getPoids(m_listesAdj, i, j)
  /\ serie' = <<>>
  /\ avant' = Etat
  /\ UNCHANGED <<m_listesAdj, m_nbArcs>>

PlusCourtChemin(p_origine, p_destination, p_chemin) ==
  /\ Libre
  /\ appel' = [op |-> "plusCourtChemin", p_origine |-> p_origine,
               p_destination |-> p_destination, p_chemin |-> p_chemin]
  /\ retour' \in
       IF HorsBornes(m_listesAdj, p_origine, p_destination)
       THEN ComportementIndefini(p_destination, p_chemin)
       ELSE {plusCourtChemin(m_listesAdj, p_origine, p_destination, p_chemin)}
  /\ serie' = <<>>
  /\ avant' = Etat
  /\ UNCHANGED <<m_listesAdj, m_nbArcs>>

Next ==
  \/ Reprendre
  \/ \E n \in 0..MaxSommets : Resize(n)
  \/ \E i \in Sommets, j \in Sommets, poids \in PoidsEssayes : AjouterArc(i, j, poids)
  \/ \E i \in Sommets, j \in Sommets : EnleverArc(i, j)
  \/ \E i \in Sommets, j \in Sommets : GetPoids(i, j)
  \/ \E o \in Sommets, d \in Sommets, c \in CheminsEntree : PlusCourtChemin(o, d, c)

Spec == Init /\ [][Next]_vars

\* ============================================================== properties
NbSommets == Len(m_listesAdj)

\* the call that has just returned
Appele(op) == appel.op = op

\* no directed path
Inatteignable == 0 - 1

\* weights of the arcs that enter v from a vertex D gives a distance to
CandidatsVers(adj, D, v) ==
  UNION {{D[u] + Liste(adj, u)[k].poids :
            k \in {x \in 1..Len(Liste(adj, u)) :
                     Liste(adj, u)[x].destination = v}} :
         u \in {x \in DOMAIN D : D[x] # Inatteignable}}

Minimum(S) == CHOOSE x \in S : \A y \in S : x <= y

RECURSIVE Iterer(_, _, _)
\* n rounds of relaxation of every arc, over the mathematical integers
Iterer(adj, D, n) ==
  IF n = 0 THEN D
  ELSE Iterer(adj,
         [v \in DOMAIN D |->
            LET c == CandidatsVers(adj, D, v)
                     \cup (IF D[v] = Inatteignable THEN {} ELSE {D[v]})
            IN IF c = {} THEN Inatteignable ELSE Minimum(c)],
         n - 1)

\* the minimum total weight of the directed paths from o to each vertex
\* (Inatteignable where there is none)
DistMin(adj, o) ==
  Iterer(adj, [v \in 0..(Len(adj) - 1) |-> IF v = o THEN 0 ELSE Inatteignable],
         Len(adj))

\* the vertices u has an arc to
Successeurs(adj, u) ==
  {Liste(adj, u)[k].destination : k \in 1..Len(Liste(adj, u))}

RECURSIVE Atteints(_, _, _)
\* the vertices of S and those reached from them by at most n arcs
Atteints(adj, S, n) ==
  IF n = 0 THEN S
  ELSE Atteints(adj, S \cup UNION {Successeurs(adj, u) : u \in S}, n - 1)

\* no directed cycle: no vertex is reached from one of its successors
Acyclique(adj) ==
  \A u \in 0..(Len(adj) - 1) :
    u \notin Atteints(adj, Successeurs(adj, u), Len(adj))

\* a plusCourtChemin call on two vertices of a graph whose arcs all end on a
\* vertex has returned
RequeteValide ==
  /\ Appele("plusCourtChemin")
  /\ appel.p_origine < NbSommets
  /\ appel.p_destination < NbSommets
  /\ ~ArcPendant(m_listesAdj)

\* the least weight of the arcs a -> b, Inatteignable when there is none
PoidsMinArc(adj, a, b) ==
  LET w == {Liste(adj, a)[k].poids :
              k \in {x \in 1..Len(Liste(adj, a)) :
                       Liste(adj, a)[x].destination = b}}
  IN IF w = {} THEN Inatteignable ELSE Minimum(w)

RECURSIVE PoidsChemin(_, _, _)
\* the sum of the least arc weights along c from its k-th vertex on
PoidsChemin(adj, c, k) ==
  IF k >= Len(c) THEN 0
  ELSE PoidsMinArc(adj, c[k], c[k + 1]) + PoidsChemin(adj, c, k + 1)

\* C4: after construction and after any sequence of resize, ajouterArc and
\* enleverArc calls, successful or failing, m_nbArcs is the sum of the
\* lengths of the adjacency lists.
C4_CompteArcs == m_nbArcs = SommeTailles(m_listesAdj, 0, NbSommets)

\* a shrinking resize has dropped arcs, kept others and left an arc pending
C4_Temoin ==
  /\ Appele("resize")
  /\ m_nbArcs < avant.nbArcs
  /\ m_nbArcs > 0
  /\ ArcPendant(m_listesAdj)

\* C7: resize(k) below the vertex count takes from m_nbArcs exactly the
\* outgoing arcs of the vertices k.. that are dropped and leaves every
\* surviving list as it was (arcs into dropped vertices stay stored and
\* counted); resize(k) at or above the vertex count leaves m_nbArcs and the
\* lists as they were and appends empty lists.
C7_Resize ==
  Appele("resize") =>
    LET k == appel.p_nouvelleTaille
        anciennes == avant.listesAdj
    IN /\ NbSommets = k
       /\ \A v \in 0..(k - 1) :
            Liste(m_listesAdj, v) =
              IF v < Len(anciennes) THEN Liste(anciennes, v) ELSE <<>>
       /\ m_nbArcs =
            IF k < Len(anciennes)
            THEN avant.nbArcs - SommeTailles(anciennes, k, Len(anciennes))
            ELSE avant.nbArcs

\* a resize has dropped a vertex that had outgoing arcs while a surviving
\* vertex keeps an arc into a dropped vertex
C7_Temoin ==
  /\ Appele("resize")
  /\ appel.p_nouvelleTaille < Len(avant.listesAdj)
  /\ m_nbArcs < avant.nbArcs
  /\ \E v \in 0..(NbSommets - 1) : \E a \in 1..Len(Liste(m_listesAdj, v)) :
       /\ Liste(m_listesAdj, v)[a].destination >= NbSommets
       /\ Liste(m_listesAdj, v)[a].destination < Len(avant.listesAdj)

\* the position in liste of the arc to j inserted last
DernierVers(liste, j) ==
  CHOOSE k \in 1..Len(liste) :
    /\ liste[k].destination = j
    /\ \A m \in (k + 1)..Len(liste) : liste[m].destination # j

\* the position in liste of the arc to j inserted first
PremierVers(liste, j) ==
  CHOOSE k \in 1..Len(liste) :
    /\ liste[k].destination = j
    /\ \A m \in 1..(k - 1) : liste[m].destination # j

\* C9: a successful enleverArc(i, j) removes exactly one arc, the one to j
\* inserted last in i's list; the other arcs of i keep their order, the other
\* lists, and the vertex count, are unchanged, m_nbArcs loses exactly 1, and
\* getPoids(i, j) still reports the earliest-inserted remaining arc to j.
C9_EnleverDernier ==
  (Appele("enleverArc") /\ retour.issue = "ok") =>
    LET i == appel.i
        j == appel.j
        ancienne == Liste(avant.listesAdj, i)
        nouvelle == Liste(m_listesAdj, i)
        k == DernierVers(ancienne, j)
    IN /\ Len(nouvelle) = Len(ancienne) - 1
       /\ \A m \in 1..Len(nouvelle) :
            nouvelle[m] = IF m < k THEN ancienne[m] ELSE ancienne[m + 1]
       /\ NbSommets = Len(avant.listesAdj)
       /\ \A v \in 0..(NbSommets - 1) :
            v # i => Liste(m_listesAdj, v) = Liste(avant.listesAdj, v)
       /\ m_nbArcs = avant.nbArcs - 1
       /\ getPoids(m_listesAdj, i, j) =
            IF \E m \in 1..Len(nouvelle) : nouvelle[m].destination = j
            THEN [issue |-> "ok",
                  valeur |-> ancienne[PremierVers(ancienne, j)].poids]
            ELSE Erreur("ArcInexistant")

\* enleverArc(i, j) has succeeded on a list that held two arcs to j of
\* different weights followed by an arc to another vertex
C9_Temoin ==
  /\ Appele("enleverArc")
  /\ retour.issue = "ok"
  /\ LET ancienne == Liste(avant.listesAdj, appel.i) IN
       /\ Len(ancienne) = 3
       /\ ancienne[1].destination = appel.j
       /\ ancienne[2].destination = appel.j
       /\ ancienne[1].poids # ancienne[2].poids
       /\ ancienne[3].destination # appel.j

\* enleverArc(i, j) is called on a list of i that holds only arcs to the
\* vertex j, at least one
SerieEnCours ==
  /\ Appele("enleverArc")
  /\ appel.i < Len(avant.listesAdj)
  /\ appel.j < Len(avant.listesAdj)
  /\ Liste(avant.listesAdj, appel.i) # <<>>
  /\ TousVers(Liste(avant.listesAdj, appel.i), appel.j)

\* enleverArc(i, j) is called right after the successful enleverArc(i, j)
\* that took the last of the parallel arcs
SerieFinie ==
  /\ Appele("enleverArc")
  /\ avant.serie = <<appel.i, appel.j>>
  /\ Liste(avant.listesAdj, appel.i) = <<>>

\* each call of the series succeeds and removes one arc
SerieReussit ==
  SerieEnCours =>
    /\ retour = Ok
    /\ Len(Liste(m_listesAdj, appel.i)) =
         Len(Liste(avant.listesAdj, appel.i)) - 1
    /\ TousVers(Liste(m_listesAdj, appel.i), appel.j)
    /\ m_nbArcs = avant.nbArcs - 1

\* C6 as claimed: with exactly k >= 1 parallel arcs from i to j and no other
\* arc out of i, k consecutive enleverArc(i, j) calls each succeed and remove
\* one arc, and the (k+1)-th fails with the arc-not-found error.
C6_ArcInexistant ==
  /\ SerieReussit
  /\ SerieFinie => retour = Erreur("ArcInexistant")

\* C6 amended: ... and the (k+1)-th fails with the empty-adjacency error
\* (i's list is empty by then), not with the arc-not-found error.
C6_ListeVide ==
  /\ SerieReussit
  /\ SerieFinie => retour = Erreur("ListeVide")

\* the call that follows the removal of the last parallel arc has failed
C6_Temoin ==
  /\ SerieFinie
  /\ retour.issue = "logic_error"

\* C3 as claimed: plusCourtChemin called with p_origine or p_destination
\* outside 0..V-1 fails with the invalid-vertex error before any entry of
\* dist[], visited[] or predecesseur[] is read or written out of range.
C3_SommetInexistant ==
  (/\ Appele("plusCourtChemin")
   /\ \/ appel.p_origine >= NbSommets
      \/ appel.p_destination >= NbSommets)
  => (retour = Erreur("SommetInexistant"))

\* C1 as claimed: whenever p_destination is reachable from p_origine,
\* plusCourtChemin returns the minimum total weight of the directed paths
\* between them.  Stated here for the minimum weights that the return type
\* holds without colliding with the sentinel (below UINT_MAX).
C1_DistanceMinimale ==
  (/\ RequeteValide
   /\ DistMin(m_listesAdj, appel.p_origine)[appel.p_destination]
        # Inatteignable
   /\ DistMin(m_listesAdj, appel.p_origine)[appel.p_destination] < UINT_MAX)
  => /\ retour.issue = "ok"
     /\ retour.valeur =
          DistMin(m_listesAdj, appel.p_origine)[appel.p_destination]

\* C2 as claimed, p_chemin being empty at the call: for every graph and valid
\* p_origine # p_destination without a directed path between them,
\* plusCourtChemin returns UINT_MAX and a path that is exactly
\* <<p_destination>>.
C2_Inatteignable ==
  (/\ Appele("plusCourtChemin")
   /\ appel.p_chemin = <<>>
   /\ appel.p_origine < NbSommets
   /\ appel.p_destination < NbSommets
   /\ appel.p_origine # appel.p_destination
   /\ DistMin(m_listesAdj, appel.p_origine)[appel.p_destination]
        = Inatteignable)
  => /\ retour.issue = "ok"
     /\ retour.valeur = UINT_MAX
     /\ retour.p_chemin = <<appel.p_destination>>

\* the same statement on the graphs whose arcs all end on a vertex of the
\* graph: there the sentinel and the path <<p_destination>> are returned
InatteignableSansArcPendant ==
  (/\ RequeteValide
   /\ appel.p_chemin = <<>>
   /\ appel.p_origine # appel.p_destination
   /\ DistMin(m_listesAdj, appel.p_origine)[appel.p_destination]
        = Inatteignable)
  => /\ retour.issue = "ok"
     /\ retour.valeur = UINT_MAX
     /\ retour.p_chemin = <<appel.p_destination>>

\* C5 as claimed: whenever plusCourtChemin, called with an empty p_chemin,
\* returns a distance other than UINT_MAX, the path starts with p_origine,
\* ends with p_destination, each consecutive pair is an arc of the graph and
\* the least arc weights along the path sum to the returned distance.
C5_CheminValide ==
  (/\ RequeteValide
   /\ appel.p_chemin = <<>>
   /\ retour.issue = "ok"
   /\ retour.valeur # UINT_MAX)
  => LET c == retour.p_chemin IN
     /\ c # <<>>
     /\ c[1] = appel.p_origine
     /\ c[Len(c)] = appel.p_destination
     /\ \A k \in 1..(Len(c) - 1) :
          PoidsMinArc(m_listesAdj, c[k], c[k + 1]) # Inatteignable
     /\ PoidsChemin(m_listesAdj, c, 1) = retour.valeur

\* the distance plusCourtChemin returns for (o, d) with an empty p_chemin
Distance(o, d) == plusCourtChemin(m_listesAdj, o, d, <<>>).valeur

\* C8 as claimed: for all valid p_origine, m, p_destination such that the
\* distances returned for (p_origine, m) and (m, p_destination) are not the
\* sentinel, the distance returned for (p_origine, p_destination) is at most
\* their sum.
C8_InegaliteTriangulaire ==
  (RequeteValide /\ retour.issue = "ok")
  => \A m \in 0..(NbSommets - 1) :
       (/\ Distance(appel.p_origine, m) # UINT_MAX
        /\ Distance(m, appel.p_destination) # UINT_MAX)
       => retour.valeur
            <= Distance(appel.p_origine, m) + Distance(m, appel.p_destination)

\* the order in which the while loop of plusCourtChemin pops the vertices
OrdreDeTraitement(adj) ==
  Depiler(TriTopologique(adj, 0,
            [visited |-> [i \in 0..(Len(adj) - 1) |-> FALSE],
             Stack |-> <<>>]).Stack)

\* the place of vertex v in the processing order
Rang(ordre, v) == CHOOSE k \in 1..Len(ordre) : ordre[k] = v

\* every vertex is processed exactly once
TraiteUneFois ==
  LET ordre == OrdreDeTraitement(m_listesAdj)
  IN /\ Len(ordre) = NbSommets
     /\ \A v \in 0..(NbSommets - 1) : \E k \in 1..Len(ordre) : ordre[k] = v

\* every vertex is processed before every vertex it has an arc to
TraiteEnOrdreTopologique ==
  LET ordre == OrdreDeTraitement(m_listesAdj)
  IN \A u \in 0..(NbSommets - 1) :
       \A k \in 1..Len(Liste(m_listesAdj, u)) :
         Rang(ordre, u) < Rang(ordre, Liste(m_listesAdj, u)[k].destination)

\* what C10 expects of an acyclic graph: the minimum, the sentinel without path
AttenduAcyclique(d) == IF d = Inatteignable THEN UINT_MAX ELSE d

\* C10 as claimed: plusCourtChemin processes every vertex once, in the
\* reverse finishing order of the depth-first traversal (a topological order
\* when the graph is acyclic), and on every acyclic graph whose arcs all end
\* on a vertex it returns the true minimum path weight, or the sentinel when
\* p_destination is unreachable.
C10_Acyclique ==
  /\ RequeteValide => TraiteUneFois
  /\ (RequeteValide /\ Acyclique(m_listesAdj))
     =>
     /\ TraiteEnOrdreTopologique
     /\ retour.issue = "ok"
     /\ retour.valeur =
          AttenduAcyclique(
            DistMin(m_listesAdj, appel.p_origine)[appel.p_destination])

\* the acyclic half of C10 with the returned value read modulo UINT_MAX + 1,
\* the conversion of the size_t distance to the return type: the processing
\* order is topological and the value is the true minimum reduced
AcycliqueModulo ==
  /\ RequeteValide => TraiteUneFois
  /\ (RequeteValide /\ Acyclique(m_listesAdj))
     =>
     /\ TraiteEnOrdreTopologique
     /\ retour.issue = "ok"
     /\ retour.valeur =
          AttenduAcyclique(
            DistMin(m_listesAdj, appel.p_origine)[appel.p_destination])
            % (UINT_MAX + 1)

====
